---- MODULE Spec2Model ----
(***************************************************************************)
(* Model of the live GitHub file-system server, src/api/index.js.          *)
(*                                                                         *)
(* One Node process runs `handler` for every HTTP request.  The module-    *)
(* level variables `subscribers` and `watching` are shared by all          *)
(* requests and by the interval callback created in startWatcher.  Every   *)
(* `await` of a remote call is a point where other handlers and timer      *)
(* callbacks may run; code between two awaits runs without interruption.   *)
(* The remote repository (GitHub contents API) is modelled by `remote`     *)
(* (path -> content, Absent when the path does not exist) and `commits`    *)
(* (number of accepted writes and deletes).                                *)
(***************************************************************************)
EXTENDS Naturals, Integers, Sequences, FiniteSets, TLC

\* ---------------------------------------------------------------- bounds
MaxReqs == 2
MaxTicks == 2

Reqs == 1..MaxReqs
Cycles == 1..MaxTicks

\* ------------------------------------------------------------- value sets
Paths == {"a.txt", "b.txt"}
Listing == <<"a.txt", "b.txt">>
Contents == {"one", "two"}
Absent == "absent"
Missing == "undefined"
Null == <<"null">>
EmptyMap == [p \in {} |-> Null]
NoSnapshot == [structure |-> <<>>, shaMap |-> EmptyMap, none |-> TRUE]

VARIABLES
    remote,        \* remote repository: path -> content or Absent
    commits,       \* remote repository: number of accepted writes/deletes
    subscribers,   \* index.js:3, the Set, as its insertion-ordered sequence
    watching,      \* index.js:4
    timers,        \* number of intervals created by setInterval (index.js:165)
    req,           \* per request: position in handler and its locals
    poll,          \* per interval callback run: position and its locals
    written,       \* per response stream: the data written by res.write
    closed,        \* streaming requests whose 'close' event has been emitted
    listening,     \* streaming requests with a 'close' listener (index.js:284)
    lastBroadcast, \* history: arguments and effect of the latest broadcast call
    treeIn,        \* tree reader on its own: the remote tree and its answers
    treeOut        \* tree reader on its own: what readFolder("") produced

treeVars == <<treeIn, treeOut>>

vars == <<remote, commits, subscribers, watching, timers, req, poll, written,
          closed, listening, lastBroadcast, treeIn, treeOut>>

\* ------------------------------------------------------------ remote store
\* The content-identity token the remote store assigns (a hash of the content).
ShaOf(c) == <<"sha", c>>

\* GET /contents/{path}: 200 with sha and content when the path exists.
RemoteGet(p) ==
    IF p \in Paths /\ remote[p] # Absent
    THEN [status |-> 200, sha |-> ShaOf(remote[p]), content |-> remote[p]]
    ELSE [status |-> 404, sha |-> Null, content |-> Absent]

\* PUT /contents/{path}: accepted when the token matches the current record
\* (no token for a path that does not exist).
RemotePutAccepts(p, sha) ==
    IF remote[p] = Absent THEN sha = Null ELSE sha = ShaOf(remote[p])

\* DELETE /contents/{path}: accepted when the path exists and the token matches.
RemoteDeleteAccepts(p, sha) ==
    remote[p] # Absent /\ sha = ShaOf(remote[p])

\* --------------------------------------------------------- pure functions
\* readFolder("") on a listing of files: one node per existing path, in the
\* order of the remote listing.
RECURSIVE readFolderFrom(_, _)
readFolderFrom(store, i) ==
    IF i > Len(Listing) THEN <<>>
    ELSE LET p == Listing[i]
         IN  IF store[p] = Absent
             THEN readFolderFrom(store, i + 1)
             ELSE <<[name |-> p, type |-> "file", sha |-> ShaOf(store[p]),
                     path |-> p, content |-> store[p]]>>
                  \o readFolderFrom(store, i + 1)

readFolder(store) == readFolderFrom(store, 1)

\* Variant: traverse does not descend into the children of a directory.
RECURSIVE buildShaMapFlat(_, _, _)
buildShaMapFlat(structure, i, shaMap) ==
    IF i > Len(structure) THEN shaMap
    ELSE LET item == structure[i]
         IN  buildShaMapFlat(structure, i + 1,
                 [p \in DOMAIN shaMap \cup {item.path} |->
                     IF p = item.path THEN item.sha ELSE shaMap[p]])

\* buildShaMap: path -> sha over the nodes of the structure, the children of
\* a directory right after the directory itself (later nodes overwrite
\* earlier ones with the same path).
RECURSIVE buildShaMapFrom(_, _, _)
buildShaMapFrom(structure, i, shaMap) ==
    IF i > Len(structure) THEN shaMap
    ELSE LET item == structure[i]
             withItem == [p \in DOMAIN shaMap \cup {item.path} |->
                             IF p = item.path THEN item.sha ELSE shaMap[p]]
             withChildren == IF item.type = "directory"
                             THEN buildShaMapFrom(item.children, 1, withItem)
                             ELSE withItem
         IN  buildShaMapFrom(structure, i + 1, withChildren)

buildShaMap(structure) == buildShaMapFrom(structure, 1, EmptyMap)

getSnapshot(structure) ==
    [structure |-> structure, shaMap |-> buildShaMap(structure), none |-> FALSE]

\* ------------------------------------------------------------ subscribers
InSeq(s, x) == \E i \in DOMAIN s : s[i] = x
SetOf(s) == {s[i] : i \in DOMAIN s}
SetAdd(s, x) == IF InSeq(s, x) THEN s ELSE Append(s, x)
SetDelete(s, x) == SelectSeq(s, LAMBDA y : y # x)

\* broadcast: the for-of loop over the Set.  `failing` are the clients whose
\* write throws during this call.  Deleting the element being visited does
\* not disturb the iteration over the remaining elements.
\* Variant: the loop ends at the first write that throws.
RECURSIVE broadcastLoopBreak(_, _, _, _, _, _)
broadcastLoopBreak(order, i, subs, wr, entry, failing) ==
    IF i > Len(order) THEN [subs |-> subs, wr |-> wr]
    ELSE LET client == order[i]
         IN  IF client \in failing
             THEN [subs |-> SetDelete(subs, client), wr |-> wr]
             ELSE broadcastLoopBreak(order, i + 1, subs,
                                     [wr EXCEPT ![client] = Append(@, entry)],
                                     entry, failing)

RECURSIVE broadcastLoop(_, _, _, _, _, _)
broadcastLoop(order, i, subs, wr, entry, failing) ==
    IF i > Len(order) THEN [subs |-> subs, wr |-> wr]
    ELSE LET client == order[i]
         IN  IF client \in failing
             THEN broadcastLoop(order, i + 1, SetDelete(subs, client), wr,
                                entry, failing)
             ELSE broadcastLoop(order, i + 1, subs,
                                [wr EXCEPT ![client] = Append(@, entry)],
                                entry, failing)

broadcast(data, src, failing) ==
    LET out == broadcastLoop(subscribers, 1, subscribers, written,
                             [src |-> src, data |-> data], failing)
    IN  /\ subscribers' = out.subs
        /\ written' = out.wr
        /\ lastBroadcast' = [n |-> lastBroadcast.n + 1, data |-> data,
                             src |-> src, before |-> SetOf(subscribers),
                             failed |-> failing]

\* Variant: no guard, every call creates an interval.
startWatcherNoGuard ==
    /\ watching' = TRUE
    /\ timers' = timers + 1

\* startWatcher: the guard and the creation of the interval.
startWatcher ==
    IF watching
    THEN UNCHANGED <<watching, timers>>
    ELSE /\ watching' = TRUE
         /\ timers' = timers + 1

\* ---------------------------------------------------------------- state
IdleReq ==
    [pc |-> "idle", method |-> "none", path |-> Missing, newPath |-> Missing,
     content |-> Missing, sha |-> Null, saveRes |-> "none", rmRes |-> "none",
     result |-> "none", status |-> 0, snapshot |-> NoSnapshot,
     calls |-> 0, mutAt |-> 0, snapAt |-> 0, joinAt |-> 0, readAt |-> 0]

IdlePoll == [pc |-> "idle", snapshot |-> NoSnapshot]

\* The repository when the process starts: one file.
InitialRemote == [p \in Paths |-> IF p = "a.txt" THEN "one" ELSE Absent]

Init ==
    /\ remote = InitialRemote
    /\ commits = 0
    /\ subscribers = <<>>
    /\ watching = FALSE
    /\ timers = 0
    /\ req = [r \in Reqs |-> IdleReq]
    /\ poll = [k \in Cycles |-> IdlePoll]
    /\ written = [r \in Reqs |-> <<>>]
    /\ closed = {}
    /\ listening = {}
    /\ lastBroadcast = [n |-> 0, data |-> NoSnapshot, src |-> "none",
                        before |-> {}, failed |-> {}]
    /\ treeIn = "unused"
    /\ treeOut = "unused"

\* A request is accepted when every request with a smaller id has been.
CanArrive(r) ==
    /\ req[r].pc = "idle"
    /\ \A q \in Reqs : q < r => req[q].pc # "idle"

\* ----------------------------------------------------------------- routes
\* GET ?stream=1 up to its first await (index.js:268-280).
ArriveStream(r) ==
    /\ CanArrive(r)
    /\ startWatcher
    /\ subscribers' = SetAdd(subscribers, r)
    /\ req' = [req EXCEPT ![r] = [@ EXCEPT !.pc = "snap", !.method = "STREAM",
                                           !.joinAt = commits]]
    /\ UNCHANGED <<remote, commits, poll, written, closed, listening,
                   lastBroadcast>>
    /\ UNCHANGED treeVars

\* Variant: the plain GET starts the watcher too.
ArriveGetStartsWatcher(r) ==
    /\ CanArrive(r)
    /\ startWatcher
    /\ req' = [req EXCEPT ![r] = [@ EXCEPT !.pc = "snap", !.method = "GET"]]
    /\ UNCHANGED <<remote, commits, subscribers, poll, written, closed,
                   listening, lastBroadcast>>
    /\ UNCHANGED treeVars

\* GET up to its await (index.js:292-293).
ArriveGet(r) ==
    /\ CanArrive(r)
    /\ req' = [req EXCEPT ![r] = [@ EXCEPT !.pc = "snap", !.method = "GET"]]
    /\ UNCHANGED <<remote, commits, subscribers, watching, timers, poll,
                   written, closed, listening, lastBroadcast>>
    /\ UNCHANGED treeVars

\* Variant: only the path is validated.
ArriveSavePathOnly(r, m, p, c) ==
    /\ CanArrive(r)
    /\ req' = [req EXCEPT ![r] =
         IF p = Missing
         THEN [@ EXCEPT !.pc = "done", !.method = m, !.path = p,
                        !.content = c, !.status = 400,
                        !.result = "Missing path or content"]
         ELSE [@ EXCEPT !.pc = "saveCheck", !.method = m, !.path = p,
                        !.content = c]]
    /\ UNCHANGED <<remote, commits, subscribers, watching, timers, poll,
                   written, closed, listening, lastBroadcast>>
    /\ UNCHANGED treeVars

\* POST, and PUT without a move, up to the first await of saveFile
\* (index.js:298-305, 315-333).
ArriveSave(r, m, p, c) ==
    /\ CanArrive(r)
    /\ req' = [req EXCEPT ![r] =
         IF p = Missing \/ c = Missing
         THEN [@ EXCEPT !.pc = "done", !.method = m, !.path = p,
                        !.content = c, !.status = 400,
                        !.result = "Missing path or content"]
         ELSE [@ EXCEPT !.pc = "saveCheck", !.method = m, !.path = p,
                        !.content = c]]
    /\ UNCHANGED <<remote, commits, subscribers, watching, timers, poll,
                   written, closed, listening, lastBroadcast>>
    /\ UNCHANGED treeVars

\* PUT with action "move" and a newPath, up to the first await of moveFile
\* (index.js:319-320, 240-245).
ArriveMove(r, p, np) ==
    /\ CanArrive(r)
    /\ req' = [req EXCEPT ![r] = [@ EXCEPT !.pc = "moveCheck", !.method = "MOVE",
                                           !.path = p, !.newPath = np]]
    /\ UNCHANGED <<remote, commits, subscribers, watching, timers, poll,
                   written, closed, listening, lastBroadcast>>
    /\ UNCHANGED treeVars

\* DELETE up to the first await of removeFile (index.js:343-350, 212-216).
ArriveDelete(r, p) ==
    /\ CanArrive(r)
    /\ req' = [req EXCEPT ![r] =
         IF p = Missing
         THEN [@ EXCEPT !.pc = "done", !.method = "DELETE", !.path = p,
                        !.status = 400, !.result = "Missing path"]
         ELSE [@ EXCEPT !.pc = "rmCheck", !.method = "DELETE", !.path = p]]
    /\ UNCHANGED <<remote, commits, subscribers, watching, timers, poll,
                   written, closed, listening, lastBroadcast>>
    /\ UNCHANGED treeVars

\* --------------------------------------------------------- CRUD operations
SaveTarget(r) == IF req[r].method = "MOVE" THEN req[r].newPath ELSE req[r].path

\* saveFile: the existence check answers (index.js:184-192) and the write is
\* issued with the token read.
saveFileCheck(r) ==
    LET check == RemoteGet(SaveTarget(r))
    IN  [req[r] EXCEPT !.pc = "savePut",
                       !.sha = IF check.status = 200 THEN check.sha ELSE Null,
                       !.readAt = commits]

SaveCheck(r) ==
    /\ req[r].pc = "saveCheck"
    /\ req' = [req EXCEPT ![r] = saveFileCheck(r)]
    /\ UNCHANGED <<remote, commits, subscribers, watching, timers, poll,
                   written, closed, listening, lastBroadcast>>
    /\ UNCHANGED treeVars

\* Variant: a rejected write is repeated with the current token until the
\* remote store accepts it.
SavePutForce(r) ==
    /\ req[r].pc = "savePut"
    /\ remote' = [remote EXCEPT ![SaveTarget(r)] = req[r].content]
    /\ commits' = commits + 1
    /\ req' = [req EXCEPT ![r] =
         IF req[r].method = "MOVE"
         THEN [@ EXCEPT !.pc = "rmCheck", !.saveRes = "ok", !.calls = @ + 1]
         ELSE [@ EXCEPT !.pc = "snap", !.saveRes = "ok", !.result = "ok",
                        !.calls = @ + 1, !.mutAt = commits + 1]]
    /\ UNCHANGED <<subscribers, watching, timers, poll, written, closed,
                   listening, lastBroadcast>>
    /\ UNCHANGED treeVars

\* saveFile: the write reaches the remote store and its answer is returned
\* (index.js:195-208).  Inside moveFile the answer is dropped and removeFile
\* starts (index.js:255-258).
SavePut(r) ==
    LET accepted == RemotePutAccepts(SaveTarget(r), req[r].sha)
        answer == IF accepted THEN "ok" ELSE "conflict"
        after == IF accepted THEN commits + 1 ELSE commits
    IN  /\ req[r].pc = "savePut"
        /\ remote' = IF accepted
                     THEN [remote EXCEPT ![SaveTarget(r)] = req[r].content]
                     ELSE remote
        /\ commits' = after
        /\ req' = [req EXCEPT ![r] =
             IF req[r].method = "MOVE"
             THEN [@ EXCEPT !.pc = "rmCheck", !.saveRes = answer,
                            !.calls = @ + 1]
             ELSE [@ EXCEPT !.pc = "snap", !.saveRes = answer,
                            !.result = answer, !.calls = @ + 1,
                            !.mutAt = after]]
        /\ UNCHANGED <<subscribers, watching, timers, poll, written, closed,
                       listening, lastBroadcast>>
        /\ UNCHANGED treeVars

\* What the handler answers once removeFile has returned `answer`: moveFile
\* reports success whatever removeFile returned (index.js:258-260).
AfterRemove(r, answer, now) ==
    [req[r] EXCEPT !.pc = "snap", !.rmRes = answer,
                   !.result = IF req[r].method = "MOVE" THEN "success"
                              ELSE answer,
                   !.mutAt = now]

\* Variant: no early return, the delete is issued whatever the check says.
removeFileCheckNoReturn(r) ==
    [req[r] EXCEPT !.pc = "rmDel", !.sha = RemoteGet(req[r].path).sha]

\* removeFile: the existence check answers (index.js:213-222).
removeFileCheck(r) ==
    LET getResp == RemoteGet(req[r].path)
    IN  IF getResp.status # 200
        THEN AfterRemove(r, "File not found", commits)
        ELSE [req[r] EXCEPT !.pc = "rmDel", !.sha = getResp.sha]

RmCheck(r) ==
    /\ req[r].pc = "rmCheck"
    /\ req' = [req EXCEPT ![r] = removeFileCheck(r)]
    /\ UNCHANGED <<remote, commits, subscribers, watching, timers, poll,
                   written, closed, listening, lastBroadcast>>
    /\ UNCHANGED treeVars

\* removeFile: the delete reaches the remote store (index.js:224-236).
RmDel(r) ==
    LET accepted == RemoteDeleteAccepts(req[r].path, req[r].sha)
        after == IF accepted THEN commits + 1 ELSE commits
    IN  /\ req[r].pc = "rmDel"
        /\ remote' = IF accepted
                     THEN [remote EXCEPT ![req[r].path] = Absent]
                     ELSE remote
        /\ commits' = after
        /\ req' = [req EXCEPT ![r] =
             [AfterRemove(r, IF accepted THEN "ok" ELSE "conflict", after)
                 EXCEPT !.calls = @ + 1]]
        /\ UNCHANGED <<subscribers, watching, timers, poll, written, closed,
                       listening, lastBroadcast>>
        /\ UNCHANGED treeVars

\* moveFile: the read of oldPath answers (index.js:242-255).
moveFileCheck(r) ==
    LET getResp == RemoteGet(req[r].path)
    IN  IF getResp.status # 200
        THEN [req[r] EXCEPT !.pc = "snap", !.result = "File not found",
                            !.mutAt = commits]
        ELSE [req[r] EXCEPT !.pc = "saveCheck", !.content = getResp.content]

MoveCheck(r) ==
    /\ req[r].pc = "moveCheck"
    /\ req' = [req EXCEPT ![r] = moveFileCheck(r)]
    /\ UNCHANGED <<remote, commits, subscribers, watching, timers, poll,
                   written, closed, listening, lastBroadcast>>
    /\ UNCHANGED treeVars

\* ---------------------------------------------------- snapshot and answer
\* What a call of getSnapshot produces: the tree of the remote store, an
\* empty tree when the listing answer is not an array (index.js:51), or a
\* thrown error when a fetch rejects.
Outcomes == {"ok", "notArray", "throw"}

Assembled(outcome) ==
    IF outcome = "ok" THEN getSnapshot(readFolder(remote))
    ELSE getSnapshot(<<>>)

\* The await of getSnapshot in a request handler completes (index.js:280,
\* 293, 308, 322, 336, 353).  A thrown error is not caught: the handler ends
\* there.
SnapRead(r, outcome) ==
    /\ req[r].pc = "snap"
    /\ req' = [req EXCEPT ![r] =
         IF outcome = "throw"
         THEN [@ EXCEPT !.pc = "crashed"]
         ELSE [@ EXCEPT !.pc = "deliver", !.snapshot = Assembled(outcome),
                        !.snapAt = commits]]
    /\ UNCHANGED <<remote, commits, subscribers, watching, timers, poll,
                   written, closed, listening, lastBroadcast>>
    /\ UNCHANGED treeVars

\* The streaming handler writes the initial snapshot and registers the
\* 'close' listener (index.js:281-288).  A throwing write ends the handler
\* before the listener is registered.
StreamInit(r, ok) ==
    /\ req[r].pc = "deliver"
    /\ req[r].method = "STREAM"
    /\ ok \/ r \in closed
    /\ IF ok
       THEN /\ written' = [written EXCEPT ![r] =
                   Append(@, [src |-> "init", data |-> req[r].snapshot])]
            /\ listening' = listening \cup {r}
            /\ req' = [req EXCEPT ![r] = [@ EXCEPT !.pc = "open"]]
       ELSE /\ req' = [req EXCEPT ![r] = [@ EXCEPT !.pc = "crashed"]]
            /\ UNCHANGED <<written, listening>>
    /\ UNCHANGED <<remote, commits, subscribers, watching, timers, poll,
                   closed, lastBroadcast>>
    /\ UNCHANGED treeVars

\* The plain GET answers with the snapshot (index.js:294).
GetRespond(r) ==
    /\ req[r].pc = "deliver"
    /\ req[r].method = "GET"
    /\ req' = [req EXCEPT ![r] = [@ EXCEPT !.pc = "done", !.status = 200,
                                           !.result = "snapshot"]]
    /\ UNCHANGED <<remote, commits, subscribers, watching, timers, poll,
                   written, closed, listening, lastBroadcast>>
    /\ UNCHANGED treeVars

\* Variant: the handler answers without broadcasting.
mutationFinishNoBroadcast(r, failing) ==
    /\ req' = [req EXCEPT ![r] = [@ EXCEPT !.pc = "done", !.status = 200]]
    /\ UNCHANGED <<subscribers, written, lastBroadcast>>

\* A mutation handler broadcasts its snapshot and answers (index.js:309-311,
\* 323-325, 337-339, 354-356).
mutationFinish(r, failing) ==
    /\ broadcast(req[r].snapshot, "mutation", failing)
    /\ req' = [req EXCEPT ![r] = [@ EXCEPT !.pc = "done", !.status = 200]]

MutationBroadcast(r, failing) ==
    /\ req[r].pc = "deliver"
    /\ req[r].method \in {"POST", "PUT", "MOVE", "DELETE"}
    /\ failing \subseteq SetOf(subscribers) \cap closed
    /\ mutationFinish(r, failing)
    /\ UNCHANGED <<remote, commits, watching, timers, poll, closed, listening>>
    /\ UNCHANGED treeVars

\* ------------------------------------------------------------ the watcher
Started == {k \in Cycles : poll[k].pc # "idle"}

\* Variant: a tick waits until the callbacks of the earlier ticks have ended.
TickSerial(k) ==
    /\ timers >= 1
    /\ poll[k].pc = "idle"
    /\ \A j \in Cycles : j < k => poll[j].pc \in {"done", "failed"}
    /\ poll' = [poll EXCEPT ![k] = [@ EXCEPT !.pc = "snap"]]
    /\ UNCHANGED <<remote, commits, subscribers, watching, timers, req,
                   written, closed, listening, lastBroadcast>>
    /\ UNCHANGED treeVars

\* The interval fires and the callback awaits getSnapshot (index.js:165-167).
Tick(k) ==
    /\ timers >= 1
    /\ poll[k].pc = "idle"
    /\ \A j \in Cycles : j < k => poll[j].pc # "idle"
    /\ poll' = [poll EXCEPT ![k] = [@ EXCEPT !.pc = "snap"]]
    /\ UNCHANGED <<remote, commits, subscribers, watching, timers, req,
                   written, closed, listening, lastBroadcast>>
    /\ UNCHANGED treeVars

\* Variant: the catch block clears the interval.
watcherCatchStops(k) ==
    /\ poll' = [poll EXCEPT ![k] = [@ EXCEPT !.pc = "failed"]]
    /\ timers' = 0
    /\ UNCHANGED <<subscribers, watching, written, lastBroadcast>>

\* The catch block of the interval callback (index.js:169-171).
watcherCatch(k) ==
    /\ poll' = [poll EXCEPT ![k] = [@ EXCEPT !.pc = "failed"]]
    /\ UNCHANGED <<subscribers, watching, timers, written, lastBroadcast>>

\* The await of getSnapshot in the interval callback completes
\* (index.js:167): on success the callback broadcasts (index.js:168) in the
\* same run.
PollRead(k, outcome) ==
    /\ poll[k].pc = "snap"
    /\ IF outcome = "throw"
       THEN watcherCatch(k)
       ELSE /\ poll' = [poll EXCEPT ![k] =
                   [@ EXCEPT !.pc = "deliver", !.snapshot = Assembled(outcome)]]
            /\ UNCHANGED <<subscribers, watching, timers, written,
                           lastBroadcast>>
    /\ UNCHANGED <<remote, commits, req, closed, listening>>
    /\ UNCHANGED treeVars

PollBroadcast(k, failing) ==
    /\ poll[k].pc = "deliver"
    /\ failing \subseteq SetOf(subscribers) \cap closed
    /\ broadcast(poll[k].snapshot, "poll", failing)
    /\ poll' = [poll EXCEPT ![k] = [@ EXCEPT !.pc = "done"]]
    /\ UNCHANGED <<remote, commits, watching, timers, req, closed, listening>>
    /\ UNCHANGED treeVars

\* ------------------------------------------------------------ the client
\* The client of a streaming request goes away: 'close' is emitted once, and
\* runs the listener if one is registered by then (index.js:284-286).
Disconnect(c) ==
    /\ req[c].method = "STREAM"
    /\ c \notin closed
    /\ closed' = closed \cup {c}
    /\ subscribers' = IF c \in listening THEN SetDelete(subscribers, c)
                      ELSE subscribers
    /\ UNCHANGED <<remote, commits, watching, timers, req, poll, written,
                   listening, lastBroadcast>>
    /\ UNCHANGED treeVars

Next ==
    \/ \E r \in Reqs : ArriveStream(r)
    \/ \E r \in Reqs : ArriveGet(r)
    \/ \E r \in Reqs, m \in {"POST", "PUT"}, p \in Paths \cup {Missing},
          c \in Contents \cup {Missing} : ArriveSave(r, m, p, c)
    \/ \E r \in Reqs, p \in Paths \cup {Missing}, np \in Paths :
          ArriveMove(r, p, np)
    \/ \E r \in Reqs, p \in Paths \cup {Missing} : ArriveDelete(r, p)
    \/ \E r \in Reqs : SaveCheck(r)
    \/ \E r \in Reqs : SavePut(r)
    \/ \E r \in Reqs : RmCheck(r)
    \/ \E r \in Reqs : RmDel(r)
    \/ \E r \in Reqs : MoveCheck(r)
    \/ \E r \in Reqs, o \in Outcomes : SnapRead(r, o)
    \/ \E r \in Reqs, ok \in BOOLEAN : StreamInit(r, ok)
    \/ \E r \in Reqs : GetRespond(r)
    \/ \E r \in Reqs : \E f \in SUBSET Reqs : MutationBroadcast(r, f)
    \/ \E k \in Cycles : Tick(k)
    \/ \E k \in Cycles, o \in Outcomes : PollRead(k, o)
    \/ \E k \in Cycles : \E f \in SUBSET Reqs : PollBroadcast(k, f)
    \/ \E c \in Reqs : Disconnect(c)

Spec == Init /\ [][Next]_vars

\* ------------------------------------------------- the tree reader alone
\* A remote repository with directories: the entries every directory can
\* list, in the order of the listing ("" is the root).
TreeDirs == {"", "d", "d/e"}
TreeFiles == {"a.txt", "z.txt", "d/b.txt", "d/e/c.txt"}
TreeEntries == [dir \in TreeDirs |->
    CASE dir = "" -> <<"d", "a.txt", "z.txt">>
      [] dir = "d" -> <<"d/b.txt", "d/e">>
      [] dir = "d/e" -> <<"d/e/c.txt">>]
TreeParent == [item \in (TreeDirs \ {""}) \cup TreeFiles |->
    CASE item \in {"d", "a.txt", "z.txt"} -> ""
      [] item \in {"d/b.txt", "d/e"} -> "d"
      [] item = "d/e/c.txt" -> "d/e"]
TreeName == [item \in (TreeDirs \ {""}) \cup TreeFiles |->
    CASE item = "d" -> "d"
      [] item = "a.txt" -> "a.txt"
      [] item = "z.txt" -> "z.txt"
      [] item = "d/b.txt" -> "b.txt"
      [] item = "d/e" -> "e"
      [] item = "d/e/c.txt" -> "c.txt"]
TreeContent == [f \in TreeFiles |-> IF f \in {"a.txt", "d/e/c.txt"} THEN "one"
                                    ELSE "two"]
NullContent == "null"

\* What the remote store answers: which entries exist, the answer to every
\* directory listing and to every file fetch.
ListAnswers == {"ok", "notArray", "reject"}
FetchAnswers == {"ok", "notOk", "throw"}
TreeInputs ==
    [present : SUBSET ((TreeDirs \ {""}) \cup TreeFiles),
     list : [TreeDirs -> ListAnswers],
     fetch : [TreeFiles -> FetchAnswers]]

Thrown == [thrown |-> TRUE, list |-> <<>>]
Returned(list) == [thrown |-> FALSE, list |-> list]

\* Variant: no try/catch around the file fetch, a rejected fetch is thrown
\* out of readFolder.
fetchFileNoCatch(inp, item) ==
    IF inp.fetch[item] = "throw" THEN Thrown
    ELSE IF inp.fetch[item] = "notOk"
    THEN Returned(<<[name |-> TreeName[item], type |-> "file",
                     sha |-> ShaOf(TreeContent[item]), path |-> item,
                     content |-> NullContent,
                     error |-> "Failed to fetch content: status"]>>)
    ELSE Returned(<<[name |-> TreeName[item], type |-> "file",
                     sha |-> ShaOf(TreeContent[item]), path |-> item,
                     content |-> TreeContent[item]]>>)

\* The file branch of readFolder (index.js:63-116): the node pushed for a
\* file entry.  Nothing is thrown out of the try block.
fetchFile(inp, item) ==
    IF inp.fetch[item] = "notOk"
    THEN Returned(<<[name |-> TreeName[item], type |-> "file",
                     sha |-> ShaOf(TreeContent[item]), path |-> item,
                     content |-> NullContent,
                     error |-> "Failed to fetch content: status"]>>)
    ELSE IF inp.fetch[item] = "throw"
    THEN Returned(<<[name |-> TreeName[item], type |-> "file",
                     sha |-> ShaOf(TreeContent[item]), path |-> item,
                     content |-> NullContent, error |-> "error.message"]>>)
    ELSE Returned(<<[name |-> TreeName[item], type |-> "file",
                     sha |-> ShaOf(TreeContent[item]), path |-> item,
                     content |-> TreeContent[item]]>>)

\* readFolder(path) (index.js:46-120): a rejected listing fetch is thrown, a
\* listing that is not an array gives [], and the entries are read one after
\* the other, a directory by the recursive call.
RECURSIVE readFolderTree(_, _)
RECURSIVE readEntries(_, _, _)
readEntries(inp, path, i) ==
    IF i > Len(TreeEntries[path]) THEN Returned(<<>>)
    ELSE LET item == TreeEntries[path][i]
         IN  IF item \notin inp.present THEN readEntries(inp, path, i + 1)
             ELSE LET sub == IF item \in TreeDirs
                             THEN readFolderTree(inp, item)
                             ELSE fetchFile(inp, item)
                      pushed == IF item \in TreeDirs
                                THEN <<[name |-> TreeName[item],
                                        type |-> "directory",
                                        sha |-> ShaOf(item), path |-> item,
                                        children |-> sub.list]>>
                                ELSE sub.list
                  IN  IF sub.thrown THEN Thrown
                      ELSE LET rest == readEntries(inp, path, i + 1)
                           IN  IF rest.thrown THEN Thrown
                               ELSE Returned(pushed \o rest.list)

readFolderTree(inp, path) ==
    IF inp.list[path] = "reject" THEN Thrown
    ELSE IF inp.list[path] = "notArray" THEN Returned(<<>>)
    ELSE readEntries(inp, path, 1)

\* getSnapshot() on the tree (index.js:138-142).
getSnapshotTree(inp) ==
    LET structure == readFolderTree(inp, "")
    IN  IF structure.thrown
        THEN [pending |-> FALSE, thrown |-> TRUE, snapshot |-> NoSnapshot]
        ELSE [pending |-> FALSE, thrown |-> FALSE,
              snapshot |-> getSnapshot(structure.list)]

TreePending == [pending |-> TRUE, thrown |-> FALSE, snapshot |-> NoSnapshot]

TreeInit ==
    /\ treeIn \in TreeInputs
    /\ treeOut = TreePending
    /\ remote = InitialRemote
    /\ commits = 0
    /\ subscribers = <<>>
    /\ watching = FALSE
    /\ timers = 0
    /\ req = <<>>
    /\ poll = <<>>
    /\ written = <<>>
    /\ closed = {}
    /\ listening = {}
    /\ lastBroadcast = [n |-> 0, data |-> NoSnapshot, src |-> "none",
                        before |-> {}, failed |-> {}]

TreeRead ==
    /\ treeOut.pending
    /\ treeOut' = getSnapshotTree(treeIn)
    /\ UNCHANGED <<treeIn, remote, commits, subscribers, watching, timers,
                   req, poll, written, closed, listening, lastBroadcast>>

TreeNext == TreeRead

TreeSpec == TreeInit /\ [][TreeNext]_vars

\* ------------------------------------------------------------------ claims
Arrives(r, m) == req[r].pc = "idle" /\ req'[r].method = m
BroadcastCalled == lastBroadcast'.n # lastBroadcast.n
Entry(src, data) == [src |-> src, data |-> data]

\* C1: at most one poll timer is ever created; the first call of startWatcher
\* moves the poller from idle to running, every later call changes nothing,
\* and the poller never returns to idle.
C1_AtMostOneTimer ==
    /\ [](timers <= 1 /\ (watching <=> timers = 1))
    /\ [][/\ watching => (watching' /\ timers' = timers)
          /\ \A r \in Reqs : Arrives(r, "STREAM") => (watching' /\ timers' = 1)
         ]_vars

C1_Witness ==
    /\ \A r \in Reqs : req[r].method = "STREAM"
    /\ timers = 1

\* C2: a broadcast whose serialized snapshot equals the one of the previous
\* broadcast, with the same subscriber set, writes to no subscriber.
C2_BroadcastDeduplicates ==
    [][(/\ BroadcastCalled
        /\ lastBroadcast.n >= 1
        /\ lastBroadcast'.data = lastBroadcast.data
        /\ SetOf(subscribers) = lastBroadcast.before \ lastBroadcast.failed)
       => written' = written]_vars

\* C3: a poll cycle whose fingerprint map equals the fingerprint map of the
\* previously held snapshot writes to no subscriber and changes no
\* process-wide state.
C3_UnchangedCycleWritesNothing ==
    [][\A k \in Cycles :
         (/\ poll[k].pc = "deliver"
          /\ poll'[k].pc = "done"
          /\ lastBroadcast.n >= 1
          /\ poll[k].snapshot.shaMap = lastBroadcast.data.shaMap)
         => (written' = written /\ subscribers' = subscribers)]_vars

MutationOk(q) ==
    CASE q.method \in {"POST", "PUT"} -> q.saveRes = "ok"
      [] q.method = "DELETE" -> q.rmRes = "ok"
      [] q.method = "MOVE" -> q.saveRes = "ok" /\ q.rmRes = "ok"
      [] OTHER -> FALSE

PushesWith(c, p, content) ==
    {i \in DOMAIN written[c] :
        /\ written[c][i].src # "init"
        /\ p \in DOMAIN written[c][i].data.shaMap
        /\ written[c][i].data.shaMap[p] = ShaOf(content)}

\* C5: after one successful save and no other change of the remote store, a
\* subscriber connected before the save has received at most one push whose
\* fingerprint map holds the saved path with the new content.
C5_ExactlyOnePushAfterSave ==
    \A r, c \in Reqs :
        (/\ req[r].method \in {"POST", "PUT"}
         /\ req[r].saveRes = "ok"
         /\ InitialRemote[req[r].path] # req[r].content
         /\ commits = 1
         /\ req[c].method = "STREAM"
         /\ req[c].joinAt = 0)
        => Cardinality(PushesWith(c, req[r].path, req[r].content)) <= 1

\* C6: a call of broadcast removes exactly the subscribers whose write
\* failed and writes to every other subscriber.
C6_BroadcastPrunesExactlyFailed ==
    [][BroadcastCalled =>
         LET failed == lastBroadcast'.failed
             entry == Entry(lastBroadcast'.src, lastBroadcast'.data)
         IN  /\ SetOf(subscribers') = SetOf(subscribers) \ failed
             /\ \A c \in Reqs :
                  written'[c] = IF c \in SetOf(subscribers) \ failed
                                THEN Append(written[c], entry)
                                ELSE written[c]]_vars

C6_Witness ==
    /\ lastBroadcast.n >= 1
    /\ subscribers # <<>>
    /\ \E c \in lastBroadcast.failed, d \in SetOf(subscribers) : c < d

\* C7: the first message written to a subscriber's channel is the initial
\* snapshot of its own connection handler.
C7_InitialSnapshotFirst ==
    \A c \in Reqs : written[c] # <<>> => written[c][1].src = "init"

\* C8: a subscriber whose client has disconnected is not in the subscriber
\* set.
C8_SubscribedOnlyWhileOpen ==
    \A c \in closed : ~InSeq(subscribers, c)

\* C9: a poll cycle whose snapshot assembly throws writes to no subscriber,
\* changes no process-wide state and leaves the interval in place, so that
\* the next tick can run.
C9_FailedCycleIsSkipped ==
    /\ [][\A k \in Cycles :
            (poll[k].pc = "snap" /\ poll'[k].pc = "failed")
            => UNCHANGED <<subscribers, written, watching, timers, closed,
                           listening, req, remote, commits, lastBroadcast>>
         ]_vars
    /\ [](\A k \in Cycles :
            (poll[k].pc = "failed" /\ k + 1 \in Cycles /\ poll[k + 1].pc = "idle")
            => ENABLED Tick(k + 1))

C9_Witness ==
    \E k \in Cycles :
        /\ poll[k].pc = "failed"
        /\ k + 1 \in Cycles
        /\ poll[k + 1].pc = "done"
        /\ \E c \in Reqs : Len(written[c]) >= 1
                           /\ written[c][Len(written[c])].src = "poll"

TargetMissing(q) == q.path \notin Paths \/ remote[q.path] = Absent

\* C10: a remove or a move whose target does not exist returns "File not
\* found", issues no write and no delete, and leaves the remote store as it
\* is.
C10_NotFoundIssuesNoWrite ==
    /\ [][\A r \in Reqs :
            (/\ req[r].pc \in {"rmCheck", "moveCheck"}
             /\ req'[r].pc # req[r].pc
             /\ TargetMissing(req[r]))
            => /\ UNCHANGED <<remote, commits>>
               /\ req'[r].calls = req[r].calls
               /\ req'[r].pc = "snap"
               /\ IF req[r].pc = "rmCheck"
                  THEN req'[r].rmRes = "File not found"
                  ELSE req'[r].result = "File not found"]_vars
    /\ [](\A r \in Reqs :
            (\/ req[r].method = "DELETE" /\ req[r].rmRes = "File not found"
             \/ req[r].method = "MOVE" /\ req[r].result = "File not found")
            => (req[r].calls = 0 /\ req[r].result = "File not found"))

C10_Witness ==
    \E r, q \in Reqs :
        /\ req[r].method = "DELETE" /\ req[r].pc = "done"
        /\ req[r].result = "File not found"
        /\ req[q].method = "MOVE" /\ req[q].pc = "done"
        /\ req[q].result = "File not found"
        /\ remote = InitialRemote

\* C11: a move (to another path) that reports success has left oldPath
\* absent and newPath present with the content oldPath had when the move
\* started.
C11_MoveEndsMoved ==
    [][\A r \in Reqs :
         (/\ req[r].method = "MOVE"
          /\ req[r].path # req[r].newPath
          /\ req[r].result # "success"
          /\ req'[r].result = "success")
         => /\ remote'[req[r].path] = Absent
            /\ remote'[req[r].newPath] = req[r].content]_vars

\* Two finished saves of the same existing path that read the same token
\* before either wrote, with no other accepted write in between.
Accepted(r) == IF req[r].saveRes = "ok" THEN 1 ELSE 0
Later(r, q) == IF req[r].mutAt >= req[q].mutAt THEN req[r].mutAt
               ELSE req[q].mutAt

RacingSaves(r, q) ==
    /\ r # q
    /\ req[r].method \in {"POST", "PUT"}
    /\ req[q].method \in {"POST", "PUT"}
    /\ req[r].path = req[q].path
    /\ req[r].saveRes # "none"
    /\ req[q].saveRes # "none"
    /\ req[r].sha # Null
    /\ req[r].sha = req[q].sha
    /\ req[r].readAt = req[q].readAt
    /\ Later(r, q) = req[r].readAt + Accepted(r) + Accepted(q)

OneWins(r, q) ==
    /\ Accepted(r) + Accepted(q) = 1
    /\ \A x \in {r, q} : Accepted(x) = 0 => req[x].result = "conflict"
    /\ \A x \in {r, q} : req[x].calls = 1

\* The write accepted first replaced the content the token stands for.
FirstWriteChanges(r, q) ==
    \E x \in {r, q} :
        /\ Accepted(x) = 1
        /\ req[x].mutAt = req[x].readAt + 1
        /\ ShaOf(req[x].content) # req[x].sha

\* C12 as stated: of two saves that read the same token before either
\* wrote, exactly one is accepted, the other receives the conflict, and each
\* issued one write.
C12_ExactlyOneRacingSaveWins ==
    \A r, q \in Reqs : RacingSaves(r, q) => OneWins(r, q)

\* C12: as above, when the write accepted first changes the content of the
\* file.
C12_OneRacingSaveWinsWhenContentChanges ==
    \A r, q \in Reqs :
        (RacingSaves(r, q) /\ FirstWriteChanges(r, q)) => OneWins(r, q)

C12_Witness ==
    \E r, q \in Reqs :
        /\ RacingSaves(r, q)
        /\ FirstWriteChanges(r, q)
        /\ req[r].saveRes = "ok"
        /\ req[q].result = "conflict"
        /\ req[q].pc = "done"

\* The directories readFolder lists, and the files it fetches.
RECURSIVE Reached(_)
Reached(item) ==
    \/ item = ""
    \/ /\ item \in treeIn.present
       /\ Reached(TreeParent[item])
       /\ treeIn.list[TreeParent[item]] = "ok"

TreeDone == ~treeOut.pending

\* C13: when a directory that is read has no listing, the snapshot assembly
\* fails.
C13_ListErrorPropagates ==
    (TreeDone /\ \E dir \in TreeDirs : Reached(dir) /\ treeIn.list[dir] # "ok")
    => treeOut.thrown

\* Every node of a structure, and the structure without the content and
\* error of its files.
RECURSIVE AllNodes(_)
AllNodes(structure) ==
    UNION {{structure[i]} \cup (IF structure[i].type = "directory"
                                THEN AllNodes(structure[i].children) ELSE {})
           : i \in DOMAIN structure}

RECURSIVE Shape(_)
Shape(structure) ==
    [i \in DOMAIN structure |->
        IF structure[i].type = "directory"
        THEN [name |-> structure[i].name, type |-> "directory",
              sha |-> structure[i].sha, path |-> structure[i].path,
              children |-> Shape(structure[i].children)]
        ELSE [name |-> structure[i].name, type |-> "file",
              sha |-> structure[i].sha, path |-> structure[i].path]]

AllFetched == [treeIn EXCEPT !.fetch = [f \in TreeFiles |-> "ok"]]

\* C14: a failed content fetch does not abort the read; the file is a node
\* with content null and a non-empty error at its listing position, and
\* every other entry is as if no fetch had failed.
C14_FetchFailureStaysLocal ==
    TreeDone =>
        LET clean == getSnapshotTree(AllFetched)
        IN  /\ treeOut.thrown = clean.thrown
            /\ Shape(treeOut.snapshot.structure) = Shape(clean.snapshot.structure)
            /\ \A n \in AllNodes(treeOut.snapshot.structure) :
                 n.type = "file" =>
                    IF treeIn.fetch[n.path] = "ok"
                    THEN n.content = TreeContent[n.path]
                    ELSE /\ n.content = NullContent
                         /\ "error" \in DOMAIN n
                         /\ n.error # ""

C14_Witness ==
    /\ TreeDone
    /\ ~treeOut.thrown
    /\ treeIn.fetch["a.txt"] = "throw"
    /\ treeIn.fetch["d/b.txt"] = "notOk"
    /\ Len(treeOut.snapshot.structure) = 3
    /\ Len(treeOut.snapshot.structure[1].children) = 2

\* C15: the key set of buildShaMap(T) is the set of the paths of all nodes
\* of T, and every path is mapped to the token of its node.
C15_ShaMapCoversTree ==
    (TreeDone /\ ~treeOut.thrown) =>
        LET nodes == AllNodes(treeOut.snapshot.structure)
            shaMap == treeOut.snapshot.shaMap
        IN  /\ DOMAIN shaMap = {n.path : n \in nodes}
            /\ \A n \in nodes : shaMap[n.path] = n.sha

C15_Witness ==
    /\ TreeDone
    /\ ~treeOut.thrown
    /\ {"d", "d/e", "d/e/c.txt", "a.txt"} \subseteq DOMAIN treeOut.snapshot.shaMap

\* C16: a POST or PUT without path or content and a DELETE without path are
\* answered 400 and have no other effect.
Invalid(q) ==
    \/ q.method \in {"POST", "PUT"} /\ (q.path = Missing \/ q.content = Missing)
    \/ q.method = "DELETE" /\ q.path = Missing

C16_MissingFieldsRejected ==
    /\ [][\A r \in Reqs :
            (req[r].pc = "idle" /\ req'[r].pc # "idle" /\ Invalid(req'[r]))
            => /\ req'[r].pc = "done"
               /\ req'[r].status = 400
               /\ UNCHANGED <<remote, commits, subscribers, watching, timers,
                              written, poll, closed, listening, lastBroadcast>>
         ]_vars
    /\ [](\A r \in Reqs :
            Invalid(req[r])
            => /\ req[r].calls = 0
               /\ req[r].saveRes = "none"
               /\ req[r].rmRes = "none"
               /\ req[r].snapshot = NoSnapshot)

C16_Witness ==
    \E r, q \in Reqs :
        /\ req[r].method = "POST" /\ req[r].path # Missing
        /\ req[r].content = Missing /\ req[r].status = 400
        /\ req[q].method = "DELETE" /\ req[q].status = 400

\* C17: a plain GET whose snapshot assembly fails is answered (with a server
\* error status); it never ends without an answer.
C17_FailedGetIsAnswered ==
    \A r \in Reqs : req[r].method = "GET" => req[r].pc # "crashed"

\* What a request can do next does not wait for anything else.
CanStep(r) ==
    CASE req[r].pc = "idle" ->
           CanArrive(r) => (/\ ENABLED ArriveStream(r)
                            /\ ENABLED ArriveGet(r)
                            /\ ENABLED ArriveSave(r, "POST", "a.txt", "two")
                            /\ ENABLED ArriveMove(r, "a.txt", "b.txt")
                            /\ ENABLED ArriveDelete(r, "a.txt"))
      [] req[r].pc = "saveCheck" -> ENABLED SaveCheck(r)
      [] req[r].pc = "savePut" -> ENABLED SavePut(r)
      [] req[r].pc = "rmCheck" -> ENABLED RmCheck(r)
      [] req[r].pc = "rmDel" -> ENABLED RmDel(r)
      [] req[r].pc = "moveCheck" -> ENABLED MoveCheck(r)
      [] req[r].pc = "snap" -> ENABLED SnapRead(r, "ok")
      [] req[r].pc = "deliver" ->
           ENABLED (\/ StreamInit(r, TRUE)
                    \/ GetRespond(r)
                    \/ MutationBroadcast(r, {}))
      [] OTHER -> TRUE

\* C18: while a poll cycle waits for a remote call, the next tick can start
\* a new cycle and every request and every other cycle can take its next
\* step, broadcasts included.
C18_HungCallStallsOnlyItself ==
    \A k \in Cycles :
        poll[k].pc = "snap" =>
            /\ (k + 1 \in Cycles /\ poll[k + 1].pc = "idle")
                  => ENABLED Tick(k + 1)
            /\ \A r \in Reqs : CanStep(r)
            /\ \A j \in Cycles \ {k} :
                  /\ poll[j].pc = "snap" => ENABLED PollRead(j, "ok")
                  /\ poll[j].pc = "deliver" => ENABLED PollBroadcast(j, {})

C18_Witness ==
    /\ poll[1].pc = "snap"
    /\ poll[2].pc = "done"
    /\ \E r, c \in Reqs :
        /\ req[r].pc = "done"
        /\ req[r].method \in {"POST", "PUT", "MOVE", "DELETE"}
        /\ req[r].status = 200
        /\ \E i, j \in DOMAIN written[c] :
              written[c][i].src = "mutation" /\ written[c][j].src = "poll"

\* C19: no step of a move (to another path) removes the last copy of the
\* content oldPath had: it stays at oldPath or at newPath.
C19_MoveKeepsContent ==
    [][\A r \in Reqs :
         (/\ req[r].method = "MOVE"
          /\ req[r].path # req[r].newPath
          /\ req[r].pc \in {"saveCheck", "savePut", "rmCheck", "rmDel"}
          /\ req'[r] # req[r]
          /\ (\/ remote[req[r].path] = req[r].content
              \/ remote[req[r].newPath] = req[r].content))
         => (\/ remote'[req[r].path] = req[r].content
             \/ remote'[req[r].newPath] = req[r].content)]_vars

\* C20: no step of a plain GET changes the poller, the subscriber set or any
\* channel, and only the arrival of a streaming GET adds a subscriber or
\* starts the poller.
C20_PlainGetIsReadOnly ==
    [][/\ \A r \in Reqs :
            (req'[r].method = "GET" /\ req'[r] # req[r])
            => UNCHANGED <<subscribers, watching, timers, written, closed,
                           listening, lastBroadcast>>
       /\ (\/ Len(subscribers') > Len(subscribers)
           \/ watching' # watching
           \/ timers' # timers)
          => \E r \in Reqs : Arrives(r, "STREAM")]_vars

C20_Witness ==
    \E r, q \in Reqs :
        /\ req[r].method = "GET" /\ req[r].pc = "done" /\ req[r].status = 200
        /\ req[q].pc = "idle"
        /\ ~watching
        /\ timers = 0
        /\ subscribers = <<>>

====
